---- MODULE Spec2Model ----
(***************************************************************************)
(* Model of src/terminal_interface.py: the interactive loop                *)
(* TerminalInterface.run and the agent loop TerminalInterface.sampling_loop*)
(* with the remote stream and the tool collection as nondeterministic      *)
(* collaborators.                                                          *)
(***************************************************************************)
EXTENDS Integers, Sequences, FiniteSets, TLC

\* ---------------------------------------------------------------- bounds
\* number of non-command input lines of one session
MaxInputs == 2
\* number of remote calls of one session
MaxCalls == 2
\* number of content blocks one streamed response delivers
MaxBlocks == 2
\* number of content blocks one stream chunk carries
MaxChunk == 1
\* number of tool_use blocks the remote issues in one session
MaxTools == 2

\* ------------------------------------------------------------ Python values
\* Python's None
None == "<None>"

\* truth value of an optional string: None and "" are falsy
Truthy(s) == s # None /\ s # ""

\* a str value and a list value of a field that holds either
PyStr(s) == [str |-> s]
PyList(l) == [list |-> l]

\* ------------------------------------------------------ remote collaborator
\* the kinds of top-level content block the stream delivers
TextBlock(t) == [type |-> "text", text |-> t]
ThinkingBlock == [type |-> "thinking", thinking |-> "hm"]
ToolUseBlock(i) == [type |-> "tool_use", id |-> i, name |-> "bash", input |-> "in"]

\* block shapes without the tool-use id, which the remote numbers itself
BlockKinds == {"text", "empty_text", "thinking", "tool_use"}

\* the sequences of at most n elements of S
RECURSIVE SeqsUpTo(_, _)
SeqsUpTo(S, n) ==
    IF n = 0 THEN {<<>>}
    ELSE LET shorter == SeqsUpTo(S, n - 1)
         IN  shorter \cup {Append(s, e) : s \in {t \in shorter : Len(t) = n - 1}, e \in S}

\* number of tool_use entries in a sequence of block kinds or blocks
RECURSIVE CountKind(_, _)
CountKind(ks, k) ==
    IF ks = <<>> THEN 0
    ELSE (IF Head(ks) = k THEN 1 ELSE 0) + CountKind(Tail(ks), k)

\* the block objects of a chunk, tool_use ids numbered on from n
RECURSIVE MakeBlocks(_, _)
MakeBlocks(ks, n) ==
    IF ks = <<>> THEN <<>>
    ELSE LET k == Head(ks)
         IN  IF k = "tool_use"
             THEN <<ToolUseBlock(n + 1)>> \o MakeBlocks(Tail(ks), n + 1)
             ELSE <<(IF k = "text" THEN TextBlock("hi")
                     ELSE IF k = "empty_text" THEN TextBlock("")
                     ELSE ThinkingBlock)>> \o MakeBlocks(Tail(ks), n)

\* the raw results tool_collection.run can return: ToolResult(output, error, base64_image)
AllToolResults ==
    [output : {None, "", "out"}, error : {None, "", "err"}, base64_image : {None, "png"}]

\* the raw results the tools of a session return: one success and one error
ToolResults ==
    {[output |-> "out", error |-> None, base64_image |-> None],
     [output |-> None, error |-> "err", base64_image |-> None]}

\* ------------------------------------------------------------ persistence
\* A Python str that is looked into is a sequence of tokens: a character, or
\* the JSON text of one element of a list.
Ch(c) == [ch |-> c]
Elem(v) == [val |-> v]

\* the text of a str of characters
Text(cs) == [i \in 1..Len(cs) |-> Ch(cs[i])]

\* json.dumps of a list
Dumps(l) == <<Ch("[")>> \o [i \in 1..Len(l) |-> Elem(l[i])] \o <<Ch("]")>>

\* str.startswith("[")
StartsWithBracket(s) == s # <<>> /\ s[1] = Ch("[")

\* json.loads succeeds on a str that starts with "[": it is the text of a list
IsListText(s) ==
    /\ Len(s) >= 2
    /\ s[1] = Ch("[")
    /\ s[Len(s)] = Ch("]")
    /\ \A i \in 2..(Len(s) - 1) : "val" \in DOMAIN s[i]

\* json.loads of the text of a list
Loads(s) == [i \in 1..(Len(s) - 2) |-> s[i + 1].val]

\* isinstance(content, str)
IsStr(content) == "str" \in DOMAIN content

\* /save: the record written for one message
SerializableMsg(msg) ==
    [role |-> msg.role,
     content |-> IF IsStr(msg.content) THEN msg.content
                 ELSE PyStr(Dumps(msg.content.list))]

\* /save: serializable_messages, which json.dump writes and json.load reads back
SerializableMessages(msgs) == [i \in 1..Len(msgs) |-> SerializableMsg(msgs[i])]

\* LoadedMsg that leaves every content as the file has it
LoadedMsgRaw(msg) == msg

\* /load: a loaded message after its content was converted back
LoadedMsg(msg) ==
    IF IsStr(msg.content) /\ StartsWithBracket(msg.content.str)
                          /\ IsListText(msg.content.str)
    THEN [msg EXCEPT !.content = PyList(Loads(msg.content.str))]
    ELSE msg

\* /load: the number of leading records of the file that have a content
RECURSIVE Loadable(_)
Loadable(recs) ==
    IF recs = <<>> \/ "content" \notin DOMAIN Head(recs) THEN 0
    ELSE 1 + Loadable(Tail(recs))

\* /load: self.messages after the loop over loaded_messages, which stops with a
\* KeyError at the first record without content
LoadedMessages(recs) == [i \in 1..Loadable(recs) |-> LoadedMsg(recs[i])]

\* no file of the name, a file that is not JSON, a file of JSON records
NoFile == [state |-> "missing"]
BadFile == [state |-> "corrupt"]
JsonFile(recs, by) == [state |-> "json", msgs |-> recs, by |-> by]

\* the files a user may have put under the name before the session
ExternalFiles ==
    {NoFile,
     BadFile,
     JsonFile(<<[role |-> "user", content |-> PyStr(Text(<<"h", "i">>))],
                [role |-> "assistant", content |-> PyStr(Text(<<"[", "x">>))]>>, "user"),
     JsonFile(<<[role |-> "user", content |-> PyStr(Text(<<"[", "]">>))],
                [role |-> "assistant",
                 content |-> PyList(<<[type |-> "text", text |-> "hi"]>>)]>>, "user"),
     JsonFile(<<[role |-> "user", content |-> PyStr(Text(<<"h", "i">>))],
                [role |-> "assistant"]>>, "user")}

\* ------------------------------------------------------------------- state
VARIABLES
    messages,                 \* self.messages
    pc,                       \* where run / sampling_loop stands
    response_content_blocks,  \* blocks stored while streaming
    response_params,          \* blocks converted after streaming
    idx,                      \* position of the loop over response_content_blocks
    request,                  \* what the last remote call was sent
    iter_start,               \* self.messages when the current iteration started
    calls,                    \* remote calls issued so far
    inputs,                   \* non-command input lines read so far
    tools_issued,             \* tool_use blocks delivered so far
    errors_reported,          \* failure lines printed so far
    printed,                  \* text fragments printed in the current iteration
    dispatched,               \* raw results the tools returned in the current iteration
    running,                  \* ids of the tool invocations in progress
    file,                     \* the transcript file /save writes and /load reads
    saved,                    \* self.messages when /save last wrote the file
    system,                   \* self.system
    last                      \* what the last step of the program did

vars == <<messages, pc, response_content_blocks, response_params, idx, request,
          iter_start, calls, inputs, tools_issued, errors_reported, printed, dispatched,
          running, file, saved, system, last>>

\* the system prompt block __init__ builds
SystemBlock == [type |-> "text", text |-> "SYSTEM_PROMPT"]

Init ==
    /\ system = SystemBlock
    /\ messages = <<>>
    /\ pc = "input"
    /\ response_content_blocks = <<>>
    /\ response_params = <<>>
    /\ idx = 1
    /\ request = [messages |-> <<>>, system |-> <<>>]
    /\ iter_start = <<>>
    /\ calls = 0
    /\ inputs = 0
    /\ tools_issued = 0
    /\ errors_reported = 0
    /\ printed = 0
    /\ dispatched = <<>>
    /\ saved = <<>>
    /\ file = NoFile
    /\ running = {}
    /\ last = [op |-> "init"]

\* ------------------------------------------------- conversions of the code
\* the user message run appends for an input line
UserMessage(text) ==
    [role |-> "user", content |-> PyList(<<[type |-> "text", text |-> text]>>)]

\* what the loop over response_content_blocks adds to response_params for one block
ConvertBlock(block) ==
    IF block.type = "text"
    THEN IF Truthy(block.text) THEN <<[type |-> "text", text |-> block.text]>> ELSE <<>>
    ELSE IF block.type = "tool_use"
    THEN <<[type |-> "tool_use", id |-> block.id, name |-> block.name, input |-> block.input]>>
    ELSE <<>>

\* is_error of the tool_result block built from a raw result
IsError(result) == Truthy(result.error)

\* ToolResultContent with the error text added to the output and image
ToolResultContentMerged(result) ==
    PyList(
        (IF Truthy(result.output)
         THEN <<[type |-> "text", text |-> result.output]>> ELSE <<>>)
        \o
        (IF Truthy(result.base64_image)
         THEN <<[type |-> "image",
                 source |-> [type |-> "base64", media_type |-> "image/png",
                             data |-> result.base64_image]]>>
         ELSE <<>>)
        \o
        (IF Truthy(result.error)
         THEN <<[type |-> "text", text |-> result.error]>> ELSE <<>>))

\* tool_result_content built from a raw result
ToolResultContent(result) ==
    IF Truthy(result.error)
    THEN PyStr(result.error)
    ELSE PyList(
        (IF Truthy(result.output)
         THEN <<[type |-> "text", text |-> result.output]>> ELSE <<>>)
        \o
        (IF Truthy(result.base64_image)
         THEN <<[type |-> "image",
                 source |-> [type |-> "base64", media_type |-> "image/png",
                             data |-> result.base64_image]]>>
         ELSE <<>>))

\* ToolResultBlock that flags every result as an error
ToolResultBlockAlwaysError(result, id) ==
    [type |-> "tool_result", content |-> ToolResultContent(result),
     tool_use_id |-> id, is_error |-> TRUE]

\* the tool_result block of a raw result
ToolResultBlock(result, id) ==
    [type |-> "tool_result", content |-> ToolResultContent(result),
     tool_use_id |-> id, is_error |-> IsError(result)]

\* ToolResultMessage that gives every result the id of the first tool use
ToolResultMessageFirstId(result, id) ==
    [content |-> PyList(<<ToolResultBlock(result, 1)>>), role |-> "user"]

\* the message appended for one tool result
ToolResultMessage(result, id) ==
    [content |-> PyList(<<ToolResultBlock(result, id)>>), role |-> "user"]

\* the assistant message appended after the blocks were processed
AssistantMessage(params) ==
    [role |-> "assistant", content |-> PyList(params)]

\* HasToolUse that takes any block for a tool use
HasToolUseAnyBlock(params) ==
    \E i \in 1..Len(params) : params[i].type \in {"tool_use", "text"}

\* the loop test: any tool_use block in response_params
HasToolUse(params) ==
    \E i \in 1..Len(params) : params[i].type = "tool_use"

\* system_with_cache: a copy of self.system with the cache marker set
SystemWithCache ==
    [f \in (DOMAIN system) \cup {"cache_control"} |->
        IF f = "cache_control" THEN [type |-> "ephemeral"] ELSE system[f]]

\* ----------------------------------------------------------------- actions
\* run: a non-command input line is appended and sampling_loop is entered
UserInput ==
    /\ pc = "input"
    /\ inputs < MaxInputs
    /\ messages' = Append(messages, UserMessage("hello"))
    /\ inputs' = inputs + 1
    /\ pc' = "send"
    /\ dispatched' = <<>>
    /\ last' = [op |-> "input"]
    /\ UNCHANGED <<response_content_blocks, response_params, idx, request, iter_start,
                   calls, tools_issued, errors_reported, printed, running, file, saved,
                   system>>

\* the commands handle_command tells apart; "/save" and "/load" stand for the
\* two commands given without a filename
Commands == {"/exit", "/clear", "/help", "/unknown", "/save", "/load"}

\* Command whose /clear keeps the first message of the transcript
CommandClearKeepsFirst(cmd) ==
    /\ pc = "input"
    /\ messages' = IF cmd = "/clear" /\ messages # <<>>
                    THEN <<messages[1]>> ELSE messages
    /\ pc' = IF cmd = "/exit" THEN "exited" ELSE "input"
    /\ last' = [op |-> "command", cmd |-> cmd]
    /\ UNCHANGED <<response_content_blocks, response_params, idx, request, iter_start,
                   calls, inputs, tools_issued, errors_reported, printed, dispatched,
                   running, file, saved, system>>

\* run: an input line starting with "/" goes to handle_command
Command(cmd) ==
    /\ pc = "input"
    /\ messages' = IF cmd = "/clear" THEN <<>> ELSE messages
    /\ pc' = IF cmd = "/exit" THEN "exited" ELSE "input"
    /\ last' = [op |-> "command", cmd |-> cmd]
    /\ UNCHANGED <<response_content_blocks, response_params, idx, request, iter_start,
                   calls, inputs, tools_issued, errors_reported, printed, dispatched,
                   running, file, saved, system>>

\* SaveFile that empties the transcript once it is written
SaveFileClears ==
    /\ pc = "input"
    /\ file' = JsonFile(SerializableMessages(messages), "save")
    /\ saved' = messages
    /\ messages' = <<>>
    /\ last' = [op |-> "save", ok |-> TRUE]
    /\ UNCHANGED <<pc, response_content_blocks, response_params, idx, request,
                   iter_start, calls, inputs, tools_issued, errors_reported, printed,
                   dispatched, running, system>>

\* handle_command: /save with a filename writes the transcript to the file
SaveFile ==
    /\ pc = "input"
    /\ file' = JsonFile(SerializableMessages(messages), "save")
    /\ saved' = messages
    /\ last' = [op |-> "save", ok |-> TRUE]
    /\ UNCHANGED <<messages, pc, response_content_blocks, response_params, idx, request,
                   iter_start, calls, inputs, tools_issued, errors_reported, printed,
                   dispatched, running, system>>

\* handle_command: /save with a filename fails to open or to write the file
SaveFail ==
    /\ pc = "input"
    /\ file' \in {file, BadFile}
    /\ last' = [op |-> "save", ok |-> FALSE]
    /\ UNCHANGED <<messages, pc, response_content_blocks, response_params, idx, request,
                   iter_start, calls, inputs, tools_issued, errors_reported, printed,
                   dispatched, running, saved, system>>

\* LoadFile that empties the transcript before it reads the file
LoadFileClearsFirst ==
    /\ pc = "input"
    /\ messages' = IF file.state = "json" THEN LoadedMessages(file.msgs) ELSE <<>>
    /\ last' = [op |-> "load",
                ok |-> file.state = "json" /\ Loadable(file.msgs) = Len(file.msgs)]
    /\ UNCHANGED <<pc, response_content_blocks, response_params, idx, request,
                   iter_start, calls, inputs, tools_issued, errors_reported, printed,
                   dispatched, running, file, saved, system>>

\* handle_command: /load with a filename; open or json.load raise on a missing
\* or malformed file before self.messages is touched
LoadFile ==
    /\ pc = "input"
    /\ messages' = IF file.state = "json" THEN LoadedMessages(file.msgs) ELSE messages
    /\ last' = [op |-> "load",
                ok |-> file.state = "json" /\ Loadable(file.msgs) = Len(file.msgs)]
    /\ UNCHANGED <<pc, response_content_blocks, response_params, idx, request,
                   iter_start, calls, inputs, tools_issued, errors_reported, printed,
                   dispatched, running, file, saved, system>>

\* Send that marks self.system itself instead of a copy
SendMarksStored ==
    /\ pc = "send"
    /\ calls < MaxCalls
    /\ calls' = calls + 1
    /\ system' = SystemWithCache
    /\ request' = [messages |-> messages, system |-> <<SystemWithCache>>]
    /\ iter_start' = messages
    /\ response_content_blocks' = <<>>
    /\ response_params' = <<>>
    /\ idx' = 1
    /\ printed' = 0
    /\ pc' = "stream"
    /\ last' = [op |-> "send"]
    /\ UNCHANGED <<messages, inputs, tools_issued, errors_reported, dispatched, running,
                   file, saved>>

\* sampling_loop: the remote call is issued and returns a stream.  The cache
\* marks _inject_prompt_caching puts on the messages are metadata of the imported
\* computer_use_demo.loop and are left out of the message values.
Send ==
    /\ pc = "send"
    /\ calls < MaxCalls
    /\ calls' = calls + 1
    /\ request' = [messages |-> messages, system |-> <<SystemWithCache>>]
    /\ iter_start' = messages
    /\ response_content_blocks' = <<>>
    /\ response_params' = <<>>
    /\ idx' = 1
    /\ printed' = 0
    /\ pc' = "stream"
    /\ last' = [op |-> "send"]
    /\ UNCHANGED <<messages, inputs, tools_issued, errors_reported, dispatched, running,
                   file, saved, system>>

\* SendFail whose failure ends run
SendFailEndsSession ==
    /\ pc = "send"
    /\ calls < MaxCalls
    /\ calls' = calls + 1
    /\ request' = [messages |-> messages, system |-> <<SystemWithCache>>]
    /\ iter_start' = messages
    /\ response_content_blocks' = <<>>
    /\ response_params' = <<>>
    /\ idx' = 1
    /\ printed' = 0
    /\ errors_reported' = errors_reported + 1
    /\ pc' = "exited"
    /\ last' = [op |-> "send_fail"]
    /\ UNCHANGED <<messages, inputs, tools_issued, dispatched, running, file, saved,
                   system>>

\* sampling_loop: the remote call raises; the handler reports and returns
SendFail ==
    /\ pc = "send"
    /\ calls < MaxCalls
    /\ calls' = calls + 1
    /\ request' = [messages |-> messages, system |-> <<SystemWithCache>>]
    /\ iter_start' = messages
    /\ response_content_blocks' = <<>>
    /\ response_params' = <<>>
    /\ idx' = 1
    /\ printed' = 0
    /\ errors_reported' = errors_reported + 1
    /\ pc' = "input"
    /\ last' = [op |-> "send_fail"]
    /\ UNCHANGED <<messages, inputs, tools_issued, dispatched, running, file, saved,
                   system>>

\* StreamChunk that starts the tools of a chunk as soon as it arrives
StreamChunkEager(kinds) ==
    /\ pc = "stream"
    /\ Len(response_content_blocks) + Len(kinds) <= MaxBlocks
    /\ tools_issued + CountKind(kinds, "tool_use") <= MaxTools
    /\ response_content_blocks' = response_content_blocks \o MakeBlocks(kinds, tools_issued)
    /\ tools_issued' = tools_issued + CountKind(kinds, "tool_use")
    /\ printed' = printed + CountKind(kinds, "text") + CountKind(kinds, "empty_text")
    /\ running' = running \cup
                      {tools_issued + k : k \in 1..CountKind(kinds, "tool_use")}
    /\ last' = [op |-> "chunk"]
    /\ UNCHANGED <<messages, pc, response_params, idx, request, iter_start, calls,
                   inputs, errors_reported, dispatched, file, saved, system>>

\* sampling_loop: one chunk of the stream; its text is printed, its blocks stored
StreamChunk(kinds) ==
    /\ pc = "stream"
    /\ Len(response_content_blocks) + Len(kinds) <= MaxBlocks
    /\ tools_issued + CountKind(kinds, "tool_use") <= MaxTools
    /\ response_content_blocks' = response_content_blocks \o MakeBlocks(kinds, tools_issued)
    /\ tools_issued' = tools_issued + CountKind(kinds, "tool_use")
    /\ printed' = printed + CountKind(kinds, "text") + CountKind(kinds, "empty_text")
    /\ last' = [op |-> "chunk"]
    /\ UNCHANGED <<messages, pc, response_params, idx, request, iter_start, calls,
                   inputs, errors_reported, dispatched, running, file, saved, system>>

\* sampling_loop: the stream is exhausted; processing of the stored blocks starts
StreamEnd ==
    /\ pc = "stream"
    /\ response_params' = <<>>
    /\ idx' = 1
    /\ pc' = "process"
    /\ dispatched' = <<>>
    /\ last' = [op |-> "stream_end"]
    /\ UNCHANGED <<messages, response_content_blocks, request, iter_start, calls,
                   inputs, tools_issued, errors_reported, printed, running, file, saved,
                   system>>

\* StreamFail that keeps the blocks received so far as an assistant message
StreamFailKeepsPartial ==
    /\ pc = "stream"
    /\ messages' = Append(messages, AssistantMessage(response_content_blocks))
    /\ errors_reported' = errors_reported + 1
    /\ pc' = "input"
    /\ last' = [op |-> "stream_fail"]
    /\ UNCHANGED <<response_content_blocks, response_params, idx, request, iter_start,
                   calls, inputs, tools_issued, printed, dispatched, running, file,
                   saved, system>>

\* sampling_loop: the transport raises while the stream is consumed
StreamFail ==
    /\ pc = "stream"
    /\ errors_reported' = errors_reported + 1
    /\ pc' = "input"
    /\ last' = [op |-> "stream_fail"]
    /\ UNCHANGED <<messages, response_content_blocks, response_params, idx, request,
                   iter_start, calls, inputs, tools_issued, printed, dispatched,
                   running, file, saved, system>>

\* sampling_loop: a text or thinking block of the stored response is processed
ProcessPlain ==
    /\ pc = "process"
    /\ idx <= Len(response_content_blocks)
    /\ response_content_blocks[idx].type # "tool_use"
    /\ response_params' = response_params \o ConvertBlock(response_content_blocks[idx])
    /\ idx' = idx + 1
    /\ last' = [op |-> "plain"]
    /\ UNCHANGED <<messages, pc, response_content_blocks, request, iter_start, calls,
                   inputs, tools_issued, errors_reported, printed, dispatched, running,
                   file, saved, system>>

\* DispatchStart that also starts the tool of the next tool_use block
DispatchStartNoWait ==
    /\ pc = "process"
    /\ idx <= Len(response_content_blocks)
    /\ response_content_blocks[idx].type = "tool_use"
    /\ response_params' = response_params \o ConvertBlock(response_content_blocks[idx])
    /\ running' = running \cup {response_content_blocks[i].id :
                                  i \in {j \in idx..Len(response_content_blocks) :
                                           response_content_blocks[j].type = "tool_use"}}
    /\ pc' = "tool"
    /\ last' = [op |-> "start", id |-> response_content_blocks[idx].id]
    /\ UNCHANGED <<messages, response_content_blocks, idx, request, iter_start, calls,
                   inputs, tools_issued, errors_reported, printed, dispatched, file,
                   saved, system>>

\* sampling_loop: a tool_use block is converted and its tool is called
DispatchStart ==
    /\ pc = "process"
    /\ idx <= Len(response_content_blocks)
    /\ response_content_blocks[idx].type = "tool_use"
    /\ response_params' = response_params \o ConvertBlock(response_content_blocks[idx])
    /\ running' = running \cup {response_content_blocks[idx].id}
    /\ pc' = "tool"
    /\ last' = [op |-> "start", id |-> response_content_blocks[idx].id]
    /\ UNCHANGED <<messages, response_content_blocks, idx, request, iter_start, calls,
                   inputs, tools_issued, errors_reported, printed, dispatched, file,
                   saved, system>>

\* Dispatch that leaves sampling_loop when the tool returned an error
DispatchEndsOnError(result) ==
    /\ pc = "tool"
    /\ messages' = Append(messages,
                          ToolResultMessage(result, response_content_blocks[idx].id))
    /\ idx' = idx + 1
    /\ running' = running \ {response_content_blocks[idx].id}
    /\ pc' = IF Truthy(result.error) THEN "input" ELSE "process"
    /\ dispatched' = Append(dispatched,
                            [id |-> response_content_blocks[idx].id, result |-> result])
    /\ last' = [op |-> "dispatch", result |-> result,
                id |-> response_content_blocks[idx].id]
    /\ UNCHANGED <<response_content_blocks, response_params, request, iter_start, calls,
                   inputs, tools_issued, errors_reported, printed, file, saved, system>>

\* sampling_loop: the awaited tool returns a result, which is appended
Dispatch(result) ==
    /\ pc = "tool"
    /\ messages' = Append(messages,
                          ToolResultMessage(result, response_content_blocks[idx].id))
    /\ idx' = idx + 1
    /\ running' = running \ {response_content_blocks[idx].id}
    /\ pc' = "process"
    /\ dispatched' = Append(dispatched,
                            [id |-> response_content_blocks[idx].id, result |-> result])
    /\ last' = [op |-> "dispatch", result |-> result,
                id |-> response_content_blocks[idx].id]
    /\ UNCHANGED <<response_content_blocks, response_params, request, iter_start, calls,
                   inputs, tools_issued, errors_reported, printed, file, saved, system>>

\* sampling_loop: tool_collection.run raises; the handler reports and returns
DispatchRaise ==
    /\ pc = "tool"
    /\ running' = running \ {response_content_blocks[idx].id}
    /\ errors_reported' = errors_reported + 1
    /\ pc' = "input"
    /\ last' = [op |-> "dispatch_raise", id |-> response_content_blocks[idx].id]
    /\ UNCHANGED <<messages, response_content_blocks, response_params, idx, request,
                   iter_start, calls, inputs, tools_issued, printed, dispatched, file,
                   saved, system>>

\* AppendAssistant with a ceiling of two remote calls
AppendAssistantCapped ==
    /\ pc = "process"
    /\ idx > Len(response_content_blocks)
    /\ messages' = Append(messages, AssistantMessage(response_params))
    /\ pc' = IF HasToolUse(response_params) /\ calls < 2 THEN "send" ELSE "input"
    /\ last' = [op |-> "append", again |-> HasToolUse(response_params)]
    /\ UNCHANGED <<response_content_blocks, response_params, idx, request, iter_start,
                   calls, inputs, tools_issued, errors_reported, printed, dispatched,
                   running, file, saved, system>>

\* sampling_loop: the assistant message is appended and the loop test is made
AppendAssistant ==
    /\ pc = "process"
    /\ idx > Len(response_content_blocks)
    /\ messages' = Append(messages, AssistantMessage(response_params))
    /\ pc' = IF HasToolUse(response_params) THEN "send" ELSE "input"
    /\ last' = [op |-> "append", again |-> HasToolUse(response_params)]
    /\ UNCHANGED <<response_content_blocks, response_params, idx, request, iter_start,
                   calls, inputs, tools_issued, errors_reported, printed, dispatched,
                   running, file, saved, system>>

\* run: a KeyboardInterrupt passes the handler of sampling_loop and ends run
Interrupt ==
    /\ pc \in {"input", "send", "stream", "process", "tool"}
    /\ pc' = "exited"
    /\ running' = {}
    /\ last' = [op |-> "interrupt", at |-> pc]
    /\ UNCHANGED <<messages, response_content_blocks, response_params, idx, request,
                   iter_start, calls, inputs, tools_issued, errors_reported, printed,
                   dispatched, file, saved, system>>

Next ==
    \/ UserInput
    \/ \E cmd \in Commands : Command(cmd)
    \/ Send
    \/ SendFail
    \/ \E kinds \in SeqsUpTo(BlockKinds, MaxChunk) : StreamChunk(kinds)
    \/ StreamEnd
    \/ StreamFail
    \/ ProcessPlain
    \/ DispatchStart
    \/ \E result \in ToolResults : Dispatch(result)
    \/ DispatchRaise
    \/ AppendAssistant
    \/ Interrupt

Spec == Init /\ [][Next]_vars

\* a session with any of the external files under the name, at the prompt after
\* MaxCalls - 1 turns that failed at the remote call and a /clear
InitFiles ==
    /\ system = SystemBlock
    /\ messages = <<>>
    /\ pc = "input"
    /\ response_content_blocks = <<>>
    /\ response_params = <<>>
    /\ idx = 1
    /\ request = [messages |-> <<UserMessage("hello")>>, system |-> <<SystemWithCache>>]
    /\ iter_start = <<UserMessage("hello")>>
    /\ calls = MaxCalls - 1
    /\ inputs = MaxCalls - 1
    /\ tools_issued = 0
    /\ errors_reported = MaxCalls - 1
    /\ printed = 0
    /\ dispatched = <<>>
    /\ running = {}
    /\ file \in ExternalFiles
    /\ saved = <<>>
    /\ last = [op |-> "command", cmd |-> "/clear"]

\* the session with /save and /load
NextFiles ==
    \/ Next
    \/ SaveFile
    \/ SaveFail
    \/ LoadFile

SpecFiles == InitFiles /\ [][NextFiles]_vars

\* the state in which the first of two tool_use blocks is about to be dispatched
ConvertInit ==
    /\ system = SystemBlock
    /\ messages = <<UserMessage("hello")>>
    /\ pc = "process"
    /\ response_content_blocks = MakeBlocks(<<"tool_use", "tool_use">>, 0)
    /\ response_params = <<>>
    /\ idx = 1
    /\ request = [messages |-> <<UserMessage("hello")>>, system |-> <<SystemWithCache>>]
    /\ iter_start = <<UserMessage("hello")>>
    /\ calls = 1
    /\ inputs = 1
    /\ tools_issued = 2
    /\ errors_reported = 0
    /\ printed = 0
    /\ dispatched = <<>>
    /\ saved = <<>>
    /\ file = NoFile
    /\ running = {}
    /\ last = [op |-> "stream_end"]

\* the tools return any raw result and the iteration completes
ConvertNext ==
    \/ DispatchStart
    \/ \E result \in AllToolResults : Dispatch(result)
    \/ AppendAssistant

\* the conversion of raw tool results, over every raw result
SpecConvert == ConvertInit /\ [][ConvertNext]_vars

\* the values the state can take
TypeOK ==
    /\ pc \in {"input", "send", "stream", "process", "tool", "exited"}
    /\ calls \in 0..MaxCalls
    /\ inputs \in 0..MaxInputs
    /\ tools_issued \in 0..MaxTools
    /\ Len(response_content_blocks) <= MaxBlocks

\* ------------------------------------------------------ words of the claims
\* the tool_use blocks of a sequence of blocks, in order
RECURSIVE ToolUses(_)
ToolUses(blocks) ==
    IF blocks = <<>> THEN <<>>
    ELSE (IF Head(blocks).type = "tool_use" THEN <<Head(blocks)>> ELSE <<>>)
         \o ToolUses(Tail(blocks))

\* the messages appended since the current iteration started
Grown == SubSeq(messages, Len(iter_start) + 1, Len(messages))

\* the transcript still starts with what it was when the iteration started
KeepsStart ==
    /\ Len(messages) >= Len(iter_start)
    /\ SubSeq(messages, 1, Len(iter_start)) = iter_start

\* the last message of the transcript
LastMessage == messages[Len(messages)]

\* an iteration has just completed without failure
Completed == last.op = "append"

\* an iteration has just been aborted by a failure or an interrupt
Aborted ==
    \/ last.op \in {"send_fail", "stream_fail", "dispatch_raise"}
    \/ last.op = "interrupt" /\ last.at \in {"stream", "process", "tool"}

\* no two adjacent messages have the same role
Alternates(msgs) ==
    \A i \in 1..(Len(msgs) - 1) : msgs[i].role # msgs[i + 1].role

\* ------------------------------------------------------------------ claims
\* C1: an iteration that completes with N >= 1 tool_use blocks has grown the
\* transcript by one assistant message followed by one user message that holds
\* exactly N tool_result blocks in the order of the tool_use blocks.
C1_OneAssistantThenOneResultMessage ==
    (Completed /\ Len(ToolUses(response_content_blocks)) >= 1) =>
        LET uses == ToolUses(response_content_blocks)
        IN  /\ KeepsStart
            /\ Len(Grown) = 2
            /\ Grown[1].role = "assistant"
            /\ Grown[2].role = "user"
            /\ Len(Grown[2].content.list) = Len(uses)
            /\ \A k \in 1..Len(uses) :
                   /\ Grown[2].content.list[k].type = "tool_result"
                   /\ Grown[2].content.list[k].tool_use_id = uses[k].id

\* C2: the transcript is what it was when the iteration started all through
\* streaming and dispatching, and after an iteration was aborted.
C2_NoAppendBeforeCompletion ==
    (pc \in {"stream", "process", "tool"} \/ Aborted) => messages = iter_start

\* C3: in a session without failures the roles of the transcript alternate.
C3_RolesAlternate ==
    (errors_reported = 0 /\ last.op # "interrupt") => Alternates(messages)

\* C4: an iteration whose response has no tool_use block, the empty response
\* included, grows the transcript by the assistant message alone and leaves
\* sampling_loop without another remote call.
C4_NoToolUseOneMessageAndDone ==
    (Completed /\ ToolUses(response_content_blocks) = <<>>) =>
        /\ KeepsStart
        /\ Len(messages) = Len(iter_start) + 1
        /\ LastMessage.role = "assistant"
        /\ pc = "input"

\* C4 happens: an empty response was appended as an assistant message of no blocks
C4_Witness ==
    /\ Completed
    /\ response_content_blocks = <<>>
    /\ Len(messages) = 2

\* C5: a step in which the transport raises mid-stream leaves the transcript
\* as it was before the iteration, reports the failure once and returns from
\* sampling_loop, whatever was printed before.
C5_StreamFailureLeavesTranscript ==
    [][(pc = "stream" /\ last'.op = "stream_fail") =>
          /\ messages' = messages
          /\ messages' = iter_start'
          /\ errors_reported' = errors_reported + 1
          /\ calls' = calls
          /\ pc' = "input"]_vars

\* C5 happens: the stream failed after a text fragment had been printed
C5_Witness ==
    /\ last.op = "stream_fail"
    /\ printed >= 1
    /\ response_content_blocks # <<>>

\* C6: a raw result with an error gives a tool_result block with is_error true
\* whose content is the error text alone, whatever output and image it has.
C6_ErrorSuppressesOutput ==
    (last.op = "dispatch" /\ Truthy(last.result.error)) =>
        LET block == LastMessage.content.list[1]
        IN  /\ Len(LastMessage.content.list) = 1
            /\ block.type = "tool_result"
            /\ block.is_error = TRUE
            /\ block.content = PyStr(last.result.error)

\* C6 happens: the result of the second tool, with error, output and image, was appended
C6_Witness ==
    /\ last.op = "dispatch"
    /\ last.id = 2
    /\ Truthy(last.result.error)
    /\ Truthy(last.result.output)
    /\ Truthy(last.result.base64_image)

\* C7: a failure raised by the dispatcher becomes a tool_result block with
\* is_error true in the transcript and the loop goes on.
C7_DispatchFailureBecomesResult ==
    (last.op = "dispatch_raise") =>
        /\ pc \in {"process", "send"}
        /\ Len(messages) > Len(iter_start)
        /\ LastMessage.content.list[1].type = "tool_result"
        /\ LastMessage.content.list[1].tool_use_id = last.id
        /\ LastMessage.content.list[1].is_error = TRUE

\* C8: the assistant message holds every block the stream delivered, in order.
C8_AssistantHoldsAllBlocks ==
    Completed =>
        LET blocks == LastMessage.content.list
        IN  /\ Len(blocks) = Len(response_content_blocks)
            /\ \A i \in 1..Len(blocks) : blocks[i].type = response_content_blocks[i].type

\* the message of the transcript that holds the result of a dispatched tool
HoldsResult(msgs, d) ==
    \E i \in 1..Len(msgs) :
        /\ msgs[i].role = "user"
        /\ msgs[i].content.list # <<>>
        /\ msgs[i].content.list[1].type = "tool_result"
        /\ msgs[i].content.list[1].tool_use_id = d.id
        /\ msgs[i].content.list[1].is_error = Truthy(d.result.error)

\* where the tool_use block of an id stands in the stored response
PositionOf(id) ==
    CHOOSE i \in 1..Len(response_content_blocks) :
        /\ response_content_blocks[i].type = "tool_use"
        /\ response_content_blocks[i].id = id

\* the tools of the current iteration that returned an error
FailedTools == {k \in 1..Len(dispatched) : Truthy(dispatched[k].result.error)}

\* C9: a tool that returns an error does not end the turn: its result is
\* appended as a user message of one tool_result block, the loop over the
\* blocks goes on, the completed iteration loops, and the next remote call is
\* sent a transcript that holds the error result.
C9_ToolErrorDoesNotEndTurn ==
    /\ (last.op = "dispatch" /\ Truthy(last.result.error)) =>
           /\ pc = "process"
           /\ idx = PositionOf(last.id) + 1
           /\ LastMessage.role = "user"
           /\ Len(LastMessage.content.list) = 1
           /\ LastMessage.content.list[1].type = "tool_result"
           /\ LastMessage.content.list[1].tool_use_id = last.id
    /\ (Completed /\ FailedTools # {}) =>
           /\ pc = "send"
           /\ Len(dispatched) = Len(ToolUses(response_content_blocks))
           /\ \A k \in 1..Len(dispatched) :
                  dispatched[k].id = ToolUses(response_content_blocks)[k].id
    /\ (last.op = "send") =>
           \A k \in FailedTools : /\ HoldsResult(request.messages, dispatched[k])
                                  /\ HoldsResult(messages, dispatched[k])

\* C9 happens: a remote call was sent after a tool error followed by another tool
C9_Witness ==
    /\ last.op = "send"
    /\ Len(dispatched) = 2
    /\ Truthy(dispatched[1].result.error)
    /\ ~Truthy(dispatched[2].result.error)

\* C10: a completed iteration goes on to another remote call exactly when its
\* response held a tool_use block, however many iterations came before.
C10_LoopsExactlyOnToolUse ==
    Completed =>
        /\ pc \in {"send", "input"}
        /\ (pc = "send") <=> (ToolUses(response_content_blocks) # <<>>)

\* C10 happens: the iteration of the last remote call the bound allows loops again
C10_Witness ==
    /\ Completed
    /\ calls = MaxCalls
    /\ pc = "send"

\* C11: the tools of one response run one at a time in the order of their
\* tool_use blocks: the invocation in progress is that of the first block with
\* no result yet, and the results so far are those of the blocks before it.
C11_ToolsRunOneAtATime ==
    /\ Cardinality(running) <= 1
    /\ (pc # "tool") => running = {}
    /\ (pc = "tool") =>
           /\ running = {response_content_blocks[idx].id}
           /\ Len(dispatched) < Len(ToolUses(response_content_blocks))
           /\ ToolUses(response_content_blocks)[Len(dispatched) + 1].id
                  = response_content_blocks[idx].id
    /\ (pc \in {"process", "tool"}) =>
           /\ Len(dispatched) <= Len(ToolUses(response_content_blocks))
           /\ \A k \in 1..Len(dispatched) :
                  dispatched[k].id = ToolUses(response_content_blocks)[k].id

\* C11 happens: the second tool of a response runs after the first has returned
C11_Witness ==
    /\ pc = "tool"
    /\ Len(dispatched) = 1
    /\ Len(ToolUses(response_content_blocks)) = 2

\* C12: /load of the file that /save wrote succeeds and gives back the
\* transcript that was saved, every content in the form and with the value it
\* had: a str as that str, a list as that list.
C12_SaveThenLoadRoundTrip ==
    (last.op = "load" /\ file.state = "json" /\ file.by = "save") =>
        /\ last.ok
        /\ messages = saved

\* C12 happens: a saved transcript with a str content that starts with "[" and
\* with the content of an assistant message of no blocks was loaded
C12_Witness ==
    /\ last.op = "load"
    /\ file.state = "json"
    /\ file.by = "save"
    /\ \E i \in 1..Len(messages) :
           /\ IsStr(messages[i].content)
           /\ StartsWithBracket(messages[i].content.str)
    /\ \E j \in 1..Len(messages) :
           /\ ~IsStr(messages[j].content)
           /\ messages[j].content.list = <<>>
    /\ \E k \in 1..Len(messages) :
           /\ ~IsStr(messages[k].content)
           /\ messages[k].content.list # <<>>

\* a sequence starts with another
IsPrefix(short, long) ==
    /\ Len(short) <= Len(long)
    /\ SubSeq(long, 1, Len(short)) = short

\* the step just taken was the /clear command
Cleared(l) == l.op = "command" /\ l.cmd = "/clear"

\* C13 as stated: over every step other than /clear the transcript before the
\* step is a prefix of the transcript after it.
C13_OnlyAppendAndClear ==
    [][~Cleared(last') => IsPrefix(messages, messages')]_vars

\* C13 as amended: over every step other than /clear and a /load that reads
\* its file as JSON the transcript before the step is a prefix of the
\* transcript after it.
C13_OnlyAppendClearAndLoad ==
    [][(~Cleared(last') /\ ~(last'.op = "load" /\ file.state = "json"))
          => IsPrefix(messages, messages')]_vars

\* C13 happens: an iteration appended to a transcript that a /load had put in place
C13_Witness ==
    /\ last.op = "append"
    /\ Len(iter_start) >= 3
    /\ Len(messages) > Len(iter_start)
    /\ IsStr(messages[1].content)

\* a failure of the transport has just ended the turn
TransportFailed(l) == l.op \in {"send_fail", "stream_fail"}

\* C14: a transport failure is reported once and returns to the prompt, where
\* the session goes on: the next input line can be read, it starts a turn, and
\* the turn can issue its remote call.
C14_SessionGoesOnAfterFailure ==
    /\ [][TransportFailed(last') =>
             /\ errors_reported' = errors_reported + 1
             /\ pc' = "input"]_vars
    /\ []((TransportFailed(last) /\ inputs < MaxInputs) => ENABLED UserInput)
    /\ []((last.op = "input") => pc = "send")
    /\ []((last.op = "input" /\ calls < MaxCalls) => ENABLED Send)

\* C14 happens: after a turn that failed in the stream a new turn issued its call
C14_Witness ==
    /\ last.op = "send"
    /\ errors_reported = 1
    /\ inputs = 2
    /\ calls = 2
    /\ Len(messages) = 2

\* C15: every remote call is sent the system block with the cache marker, and
\* self.system stays the block __init__ built.
C15_SystemBlockMarkedOnEveryCall ==
    /\ system = SystemBlock
    /\ (last.op \in {"send", "send_fail"}) =>
           /\ Len(request.system) = 1
           /\ request.system[1].cache_control = [type |-> "ephemeral"]
           /\ request.system[1].type = "text"
           /\ request.system[1].text = "SYSTEM_PROMPT"
           /\ request.messages = messages

\* C15 happens: the second remote call of a turn was sent, with a longer transcript
C15_Witness ==
    /\ last.op = "send"
    /\ calls = 2
    /\ Len(request.messages) >= 3

\* C16: after /clear the transcript is empty, whatever it was, and a /clear
\* on an empty transcript changes nothing in the state.
C16_ClearIsIdempotent ==
    /\ [](Cleared(last) => messages = <<>>)
    /\ [][(Cleared(last') /\ messages = <<>>) => messages' = messages]_vars
    /\ [][(Cleared(last') /\ Cleared(last)) => vars' = vars]_vars

\* C16 happens: a transcript that held a whole turn has been cleared
C16_Witness ==
    /\ Cleared(last)
    /\ messages = <<>>
    /\ inputs >= 1
    /\ calls >= 1
    /\ iter_start # <<>>

\* the items a content list holds for a raw result without error
ItemCount(result) ==
    (IF Truthy(result.output) THEN 1 ELSE 0)
    + (IF Truthy(result.base64_image) THEN 1 ELSE 0)

\* C17: a raw result without error gives a tool_result block with is_error
\* false whose content is a list: the output as one text item if there is an
\* output, then the image as one image item if there is an image, nothing else.
C17_SuccessContentIsTextThenImage ==
    (last.op = "dispatch" /\ ~Truthy(last.result.error)) =>
        LET block == LastMessage.content.list[1]
            items == block.content.list
        IN  /\ Len(LastMessage.content.list) = 1
            /\ block.type = "tool_result"
            /\ block.is_error = FALSE
            /\ DOMAIN block.content = {"list"}
            /\ Len(items) = ItemCount(last.result)
            /\ Truthy(last.result.output) =>
                   /\ items[1].type = "text"
                   /\ items[1].text = last.result.output
            /\ Truthy(last.result.base64_image) =>
                   /\ items[Len(items)].type = "image"
                   /\ items[Len(items)].source.data = last.result.base64_image

\* C17 happens: a result with an output and an image and no error was appended
C17_Witness ==
    /\ last.op = "dispatch"
    /\ ~Truthy(last.result.error)
    /\ Truthy(last.result.output)
    /\ Truthy(last.result.base64_image)

\* C18: while the stream of an iteration is read no tool runs and the
\* transcript is what it was at the remote call; processing starts only when
\* the stream is exhausted, and tools and appends come only after that.
C18_StreamDrainedBeforeProcessing ==
    /\ [](pc = "stream" => (messages = iter_start /\ running = {}))
    /\ [][(pc = "stream") =>
              /\ messages' = messages
              /\ running' = {}
              /\ dispatched' \in {dispatched, <<>>}
              /\ (pc' \in {"process", "tool"} => last'.op = "stream_end")]_vars
    /\ [][(last'.op \in {"start", "dispatch", "dispatch_raise", "append"}) =>
              pc \in {"process", "tool"}]_vars

\* C18 happens: a tool has returned in an iteration whose stream came in two chunks
C18_Witness ==
    /\ last.op = "dispatch"
    /\ Len(response_content_blocks) >= 2
    /\ Len(messages) > Len(iter_start)

\* the tool_result blocks of the user messages of a list of messages, in order
RECURSIVE ResultBlocks(_)
ResultBlocks(msgs) ==
    IF msgs = <<>> THEN <<>>
    ELSE (IF Head(msgs).role = "user"
          THEN SelectSeq(Head(msgs).content.list, LAMBDA b : b.type = "tool_result")
          ELSE <<>>)
         \o ResultBlocks(Tail(msgs))

\* the k-th result of a list has the id of the k-th tool use of another
IdsFollow(results, uses) ==
    /\ Len(results) <= Len(uses)
    /\ \A k \in 1..Len(results) : results[k].tool_use_id = uses[k].id

\* C19: the tool_result blocks appended in an iteration carry, in order, the
\* ids of the tool_use blocks of the response, each id that of exactly one
\* tool_use block; when the iteration completes there is one for every
\* tool_use block of the assistant message.
C19_ResultsMatchToolUses ==
    /\ (pc \in {"process", "tool"} \/ Completed) =>
           /\ IdsFollow(ResultBlocks(Grown), ToolUses(response_content_blocks))
           /\ \A k \in 1..Len(ResultBlocks(Grown)) :
                  Cardinality({i \in 1..Len(response_content_blocks) :
                      /\ response_content_blocks[i].type = "tool_use"
                      /\ response_content_blocks[i].id
                             = ResultBlocks(Grown)[k].tool_use_id}) = 1
    /\ Completed =>
           /\ LastMessage.role = "assistant"
           /\ IdsFollow(ResultBlocks(Grown), ToolUses(LastMessage.content.list))
           /\ Len(ResultBlocks(Grown)) = Len(ToolUses(LastMessage.content.list))

\* C19 happens: an iteration with two tool uses completed
C19_Witness ==
    /\ Completed
    /\ Len(ToolUses(LastMessage.content.list)) = 2
    /\ Len(ResultBlocks(Grown)) = 2

\* the step is a command line handled by handle_command
CommandStep(l) == l.op \in {"command", "save", "load"}

\* the command of the step is one that only prints or writes a file
LeavesTranscript(l) ==
    \/ l.op = "command" /\ l.cmd \in {"/exit", "/help", "/unknown", "/save", "/load"}
    \/ l.op = "save"

\* C20: a command line is not appended as a user message and starts no remote
\* call; /help, /save, /exit, an unknown command and a /save or /load without
\* a filename leave the transcript as it is; /exit alone ends the session and
\* every other command returns to the prompt.
C20_CommandsStayLocal ==
    [][CommandStep(last') =>
          /\ pc = "input"
          /\ inputs' = inputs
          /\ calls' = calls
          /\ request' = request
          /\ last'.op # "load" => messages' \in {messages, <<>>}
          /\ LeavesTranscript(last') => messages' = messages
          /\ pc' = (IF last'.op = "command" /\ last'.cmd = "/exit"
                    THEN "exited" ELSE "input")]_vars

\* C20 happens: a transcript with a whole turn was saved to a file
C20_Witness ==
    /\ last.op = "save"
    /\ last.ok
    /\ Len(messages) >= 2
    /\ pc = "input"

====
